---- MODULE Spec2Model ----
(***************************************************************************)
(* n2: the build orchestrator (src/run.rs, build) and the build signature  *)
(* engine (src/hash.rs, hash_build / explain_hash_build).                  *)
(*                                                                         *)
(* SpecBuild runs build() step by step against its collaborators (the      *)
(* Loader load::read and the Scheduler work::Work), whose outcomes are     *)
(* drawn nondeterministically.  SpecHash draws a graph edge and a          *)
(* file-status snapshot and applies hash_build and explain_hash_build.     *)
(***************************************************************************)
EXTENDS Integers, Sequences, FiniteSets, TLC

\* ------------------------------------------------------------------ bounds
MaxTargets == 2     \* longest explicit-target list given to build()
MaxTasks == 2       \* largest task count a Scheduler run reports
MaxRefs == 2        \* most file references (ins + discovered + outs) of an edge

VARIABLES
    \* ---- build() (src/run.rs)
    pc,          \* position of build() in its body
    targets,     \* the explicit-target list build() was called with
    state,       \* the local `state`: the loaded state currently held
    work,        \* the local `work`: the Scheduler currently held
    idx,         \* position of the target loop (lines 47-49, 51-53)
    calls,       \* every collaborator call made so far, in order
    result,      \* what build() returned
    \* ---- hash_build / explain_hash_build (src/hash.rs)
    graph,       \* the graph the edge belongs to: its files' names
    build,       \* the edge being hashed
    file_state,  \* the file-status snapshot
    hash_ret,    \* what hash_build returned (or that it panicked)
    explain_ret, \* what explain_hash_build returned (or that it panicked)
    \* ---- concurrent invocations of hash_build / explain_hash_build
    invocations, \* each invocation in flight: its arguments, position, accumulator
    \* ---- run() and run_impl() (src/run.rs)
    run_pc,      \* position of run() / run_impl() in their bodies
    trace,       \* the tracing collaborator: whether open, and the calls of close
    res,         \* the local `res` of run(): what run_impl() returned
    run_ret      \* what run() returned

buildvars == <<pc, targets, state, work, idx, calls, result>>
hashvars == <<graph, build, file_state, hash_ret, explain_ret>>
concvars == <<invocations>>
runvars == <<run_pc, trace, res, run_ret>>
vars == <<pc, targets, state, work, idx, calls, result,
          graph, build, file_state, hash_ret, explain_ret,
          invocations, run_pc, trace, res, run_ret>>

\* ------------------------------------------------------------ sequences
RECURSIVE SeqsUpTo(_, _)
SeqsUpTo(S, n) ==
    IF n = 0 THEN {<<>>}
    ELSE LET shorter == SeqsUpTo(S, n - 1)
         IN  shorter \cup {Append(s, x) : s \in shorter, x \in S}

Range(s) == {s[i] : i \in 1..Len(s)}

IsPrefix(s, t) == Len(s) <= Len(t) /\ SubSeq(t, 1, Len(s)) = s

\* ======================================================================
\* build()  (src/run.rs)
\* ======================================================================
build_filename == "build.ninja"

\* The names build() may be asked to build.
TargetNames == {"a", "b"}

\* The default-target lists a manifest of the model may declare.
DefaultLists == {<<>>, <<"a">>, <<"b", "a">>}

\* The file sets the Loader may find in the manifest: the regenerated
\* manifest may declare a file the first one did not.
FileSets == {{"build.ninja", "a"}, {"build.ninja", "a", "b"}}

\* What load::read returns on success, for the n-th Loader call: the graph
\* (its files, and whether the manifest is the output of one of its build
\* edges), the fingerprint database, the pools and the default targets.
\* gen tags the objects with the load that made them.
LoadedStates(n) ==
    {[graph   |-> [gen |-> n, files |-> fs, manifest_is_output |-> m],
      hashes  |-> <<"hashes", n>>,
      db      |-> <<"db", n>>,
      pools   |-> <<"pools", n>>,
      default |-> d] :
        fs \in FileSets, m \in BOOLEAN, d \in DefaultLists}

\* The locals before their first assignment.
NoGraph == [gen |-> 0, files |-> {}, manifest_is_output |-> FALSE]
NoState == [graph |-> NoGraph, hashes |-> <<"hashes", 0>>, db |-> <<"db", 0>>,
            pools |-> <<"pools", 0>>, default |-> <<>>]
NoWork == [gen |-> 0, graph |-> NoGraph, hashes |-> <<"hashes", 0>>,
           db |-> <<"db", 0>>, pools |-> <<"pools", 0>>]

\* anyhow::Result<Option<usize>>: Err(msg), Ok(None), Ok(Some(n)).
Err(msg) == [kind |-> "Err", msg |-> msg, n |-> 0]
OkNone == [kind |-> "None", msg |-> "", n |-> 0]
OkSome(n) == [kind |-> "Some", msg |-> "", n |-> n]
NoResult == [kind |-> "running", msg |-> "", n |-> 0]

\* What Work::run returns: an error, Ok(None) for a failed run, or
\* Ok(Some(n)) for n tasks executed.
RunOutcomes == {Err("run"), OkNone} \cup {OkSome(n) : n \in 0..MaxTasks}

Return(r) ==
    /\ result' = r
    /\ pc' = "done"

Call(c) == calls' = Append(calls, c)

\* work::Work::new(state.graph, state.hashes, state.db, &options, progress,
\* state.pools): the Scheduler owns the graph, the databases and the pools
\* of the state it is made from.
Work_new(st) ==
    [gen |-> st.graph.gen, graph |-> st.graph, hashes |-> st.hashes,
     db |-> st.db, pools |-> st.pools]

\* The fields Work::new moved out of `state`; state.default stays.
Moved == [gen |-> 0, files |-> {}, manifest_is_output |-> FALSE]
AfterMove(st) ==
    [st EXCEPT !.graph = Moved, !.hashes = <<"moved", 0>>, !.db = <<"moved", 0>>,
               !.pools = <<"moved", 0>>]

\* work.is_build_target(&build_filename): Some(id) when the manifest is a
\* build output of the Scheduler's graph.
is_build_target(w, name) ==
    name \in w.graph.files /\ name = build_filename /\ w.graph.manifest_is_output

\* line 11: let mut state = load::read(&build_filename)?
build_load_read ==
    /\ pc = "load"
    /\ \/ /\ Call([op |-> "load", path |-> build_filename, ok |-> FALSE, ret |-> NoState])
          /\ Return(Err("load"))
          /\ UNCHANGED <<state, work, idx>>
       \/ \E st \in LoadedStates(1) :
            /\ Call([op |-> "load", path |-> build_filename, ok |-> TRUE, ret |-> st])
            /\ state' = st
            /\ pc' = "new"
            /\ UNCHANGED <<work, idx, result>>
    /\ UNCHANGED <<targets, hashvars, concvars, runvars>>

\* lines 12-19: let mut work = work::Work::new(...)
build_work_new ==
    /\ pc = "new"
    /\ work' = Work_new(state)
    /\ state' = AfterMove(state)
    /\ Call([op |-> "new", gen |-> state.graph.gen])
    /\ pc' = "is_build_target"
    /\ UNCHANGED <<targets, idx, result, hashvars, concvars, runvars>>

\* line 22: if let Some(target) = work.is_build_target(&build_filename)
build_is_build_target ==
    /\ pc = "is_build_target"
    /\ Call([op |-> "is_build_target", gen |-> work.gen, name |-> build_filename])
    /\ pc' = IF is_build_target(work, build_filename) THEN "want_manifest" ELSE "select"
    /\ UNCHANGED <<targets, state, work, idx, result, hashvars, concvars, runvars>>

\* line 23: work.want_fileid(target)?
build_want_manifest ==
    /\ pc = "want_manifest"
    /\ Call([op |-> "want", gen |-> work.gen, target |-> build_filename,
             phase |-> "manifest"])
    /\ \/ /\ pc' = "run_manifest"
          /\ UNCHANGED result
       \/ Return(Err("want_fileid"))
    /\ UNCHANGED <<targets, state, work, idx, hashvars, concvars, runvars>>

\* Mutant: a regenerated manifest is treated as already current (no reload).
AfterManifestRun_NoReload(out) ==
    IF out.kind = "Err" THEN Return(out)
    ELSE IF out.kind = "None" THEN Return(OkNone)
    ELSE pc' = "select" /\ UNCHANGED result

\* Mutant: every successful manifest run reloads, also one of zero tasks.
AfterManifestRun_AlwaysReload(out) ==
    IF out.kind = "Err" THEN Return(out)
    ELSE IF out.kind = "None" THEN Return(OkNone)
    ELSE pc' = "reload" /\ UNCHANGED result

\* Mutant: a failed manifest run is ignored and the main phase goes on.
AfterManifestRun_IgnoreFailure(out) ==
    IF out.kind = "Err" THEN Return(out)
    ELSE IF out.kind = "None" THEN pc' = "select" /\ UNCHANGED result
    ELSE IF out.n = 0 THEN pc' = "select" /\ UNCHANGED result
    ELSE pc' = "reload" /\ UNCHANGED result

\* The arms of the match of lines 24-43 on the outcome of the manifest run.
AfterManifestRun(out) ==
    IF out.kind = "Err" THEN Return(out)              \* the `?` of line 24
    ELSE IF out.kind = "None" THEN Return(OkNone)     \* line 25
    ELSE IF out.n = 0 THEN pc' = "select" /\ UNCHANGED result     \* lines 26-30
    ELSE pc' = "reload" /\ UNCHANGED result           \* lines 31-32

\* lines 24-32: match work.run()? { None => return Ok(None), Some(0) => {}, Some(_) => ... }
build_run_manifest ==
    /\ pc = "run_manifest"
    /\ \E out \in RunOutcomes :
        /\ Call([op |-> "run", gen |-> work.gen, phase |-> "manifest", out |-> out])
        /\ AfterManifestRun(out)
    /\ UNCHANGED <<targets, state, work, idx, hashvars, concvars, runvars>>

\* Mutant: the first Scheduler is dropped before the Loader is called again.
build_reload_DiscardFirst ==
    /\ pc = "reload"
    /\ work' = NoWork
    /\ \/ /\ Call([op |-> "load", path |-> build_filename, ok |-> FALSE, ret |-> NoState])
          /\ Return(Err("load"))
          /\ UNCHANGED state
       \/ \E st \in LoadedStates(2) :
            /\ Call([op |-> "load", path |-> build_filename, ok |-> TRUE, ret |-> st])
            /\ state' = st
            /\ pc' = "renew"
            /\ UNCHANGED result
    /\ UNCHANGED <<targets, idx, hashvars, concvars, runvars>>

\* Mutant: a failed second load is ignored; the first state is built.
build_reload_IgnoreFailure ==
    /\ pc = "reload"
    /\ \/ /\ Call([op |-> "load", path |-> build_filename, ok |-> FALSE, ret |-> NoState])
          /\ pc' = "select"
          /\ UNCHANGED <<state, result>>
       \/ \E st \in LoadedStates(2) :
            /\ Call([op |-> "load", path |-> build_filename, ok |-> TRUE, ret |-> st])
            /\ state' = st
            /\ pc' = "renew"
            /\ UNCHANGED result
    /\ UNCHANGED <<targets, work, idx, hashvars, concvars, runvars>>

\* line 33: state = load::read(&build_filename)?
build_reload ==
    /\ pc = "reload"
    /\ \/ /\ Call([op |-> "load", path |-> build_filename, ok |-> FALSE, ret |-> NoState])
          /\ Return(Err("load"))
          /\ UNCHANGED state
       \/ \E st \in LoadedStates(2) :
            /\ Call([op |-> "load", path |-> build_filename, ok |-> TRUE, ret |-> st])
            /\ state' = st
            /\ pc' = "renew"
            /\ UNCHANGED result
    /\ UNCHANGED <<targets, work, idx, hashvars, concvars, runvars>>

\* Mutant: after the first reload the manifest is checked once more.
build_work_renew_Recheck ==
    /\ pc = "renew"
    /\ work' = Work_new(state)
    /\ state' = AfterMove(state)
    /\ Call([op |-> "new", gen |-> state.graph.gen])
    /\ pc' = IF Cardinality({i \in 1..Len(calls) : calls[i].op = "new"}) < 2
             THEN "is_build_target" ELSE "select"
    /\ UNCHANGED <<targets, idx, result, hashvars, concvars, runvars>>

\* lines 34-41: work = work::Work::new(...)
build_work_renew ==
    /\ pc = "renew"
    /\ work' = Work_new(state)
    /\ state' = AfterMove(state)
    /\ Call([op |-> "new", gen |-> state.graph.gen])
    /\ pc' = "select"
    /\ UNCHANGED <<targets, idx, result, hashvars, concvars, runvars>>

\* Mutant: no bail!; with nothing to build the empty default loop is run.
SelectBranch_NoBail(ts, d) ==
    IF ts # <<>> THEN "want_file" ELSE "want_default"

\* Mutant: declared defaults win over explicit targets.
SelectBranch_DefaultsFirst(ts, d) ==
    IF d # <<>> THEN "want_default"
    ELSE IF ts # <<>> THEN "want_file"
    ELSE "bail"

\* The branch of lines 46-56 taken for an explicit list ts and a default
\* list d.
SelectBranch(ts, d) ==
    IF ts # <<>> THEN "want_file"
    ELSE IF d # <<>> THEN "want_default"
    ELSE "bail"

\* lines 46, 50, 54-55: which target set is used, or the bail!.
build_select ==
    /\ pc = "select"
    /\ LET br == SelectBranch(targets, state.default)
       IN  IF br = "bail"
           THEN Return(Err("no path specified and no default"))
           ELSE pc' = br /\ UNCHANGED result
    /\ idx' = 1
    /\ UNCHANGED <<targets, state, work, calls, hashvars, concvars, runvars>>

\* work.want_file(name): the name is looked up in the Scheduler's graph.
want_file_resolves(w, name) == name \in w.graph.files

\* Mutant: a name that does not resolve is skipped.
build_want_file_SkipUnknown ==
    /\ pc = "want_file"
    /\ IF idx > Len(targets)
       THEN /\ pc' = "run_main"
            /\ UNCHANGED <<calls, result, idx>>
       ELSE /\ Call([op |-> "want", gen |-> work.gen, target |-> targets[idx],
                     phase |-> "main"])
            /\ IF want_file_resolves(work, targets[idx])
               THEN \/ /\ idx' = idx + 1
                       /\ UNCHANGED <<pc, result>>
                    \/ /\ Return(Err("want_fileid"))
                       /\ UNCHANGED idx
               ELSE /\ idx' = idx + 1
                    /\ UNCHANGED <<pc, result>>
    /\ UNCHANGED <<targets, state, work, hashvars, concvars, runvars>>

\* lines 47-49: for name in &targets { work.want_file(name)?; }
build_want_file ==
    /\ pc = "want_file"
    /\ IF idx > Len(targets)
       THEN /\ pc' = "run_main"
            /\ UNCHANGED <<calls, result, idx>>
       ELSE /\ Call([op |-> "want", gen |-> work.gen, target |-> targets[idx],
                     phase |-> "main"])
            /\ IF want_file_resolves(work, targets[idx])
               THEN \/ /\ idx' = idx + 1
                       /\ UNCHANGED <<pc, result>>
                    \/ /\ Return(Err("want_fileid"))
                       /\ UNCHANGED idx
               ELSE /\ Return(Err("unknown path requested"))
                    /\ UNCHANGED idx
    /\ UNCHANGED <<targets, state, work, hashvars, concvars, runvars>>

\* lines 51-53: for target in state.default { work.want_fileid(target)?; }
build_want_default ==
    /\ pc = "want_default"
    /\ IF idx > Len(state.default)
       THEN /\ pc' = "run_main"
            /\ UNCHANGED <<calls, result, idx>>
       ELSE /\ Call([op |-> "want", gen |-> work.gen, target |-> state.default[idx],
                     phase |-> "main"])
            /\ \/ /\ idx' = idx + 1
                  /\ UNCHANGED <<pc, result>>
               \/ /\ Return(Err("want_fileid"))
                  /\ UNCHANGED idx
    /\ UNCHANGED <<targets, state, work, hashvars, concvars, runvars>>

\* line 58: work.run(), whose result is build()'s.
build_run_main ==
    /\ pc = "run_main"
    /\ \E out \in RunOutcomes :
        /\ Call([op |-> "run", gen |-> work.gen, phase |-> "main", out |-> out])
        /\ Return(out)
    /\ UNCHANGED <<targets, state, work, idx, hashvars, concvars, runvars>>

HashIdle ==
    /\ graph = <<>>
    /\ build = <<>>
    /\ file_state = <<>>
    /\ hash_ret = <<>>
    /\ explain_ret = <<>>

\* No hash invocation is in flight.
ConcIdle == invocations = <<>>

\* run() is not being executed: build() is looked at on its own.
NoExit == [kind |-> "none", code |-> 0, msg |-> ""]
NoTrace == [open |-> FALSE, closes |-> 0]
RunIdle ==
    /\ run_pc = "idle"
    /\ trace = NoTrace
    /\ res = NoExit
    /\ run_ret = NoExit

BuildInit ==
    /\ pc = "load"
    /\ targets \in SeqsUpTo(TargetNames, MaxTargets)
    /\ state = NoState
    /\ work = NoWork
    /\ idx = 1
    /\ calls = <<>>
    /\ result = NoResult
    /\ HashIdle
    /\ ConcIdle
    /\ RunIdle

BuildNext ==
    \/ build_load_read
    \/ build_work_new
    \/ build_is_build_target
    \/ build_want_manifest
    \/ build_run_manifest
    \/ build_reload
    \/ build_work_renew
    \/ build_select
    \/ build_want_file
    \/ build_want_default
    \/ build_run_main

SpecBuild == BuildInit /\ [][BuildNext]_vars

\* Every collaborator call returns: a step of build() that can be taken is
\* taken.
SpecBuildFair == SpecBuild /\ WF_vars(BuildNext)

\* ---------------------------------------------------------------------
\* Properties of build()
\* ---------------------------------------------------------------------
CallIdx == 1..Len(calls)
Loads == {i \in CallIdx : calls[i].op = "load"}
IsRun(i, ph) == calls[i].op = "run" /\ calls[i].phase = ph
IsWant(i, ph) == calls[i].op = "want" /\ calls[i].phase = ph
ManifestRuns == {i \in CallIdx : IsRun(i, "manifest")}
MainRuns == {i \in CallIdx : IsRun(i, "main")}
MainCalls == {i \in CallIdx : IsRun(i, "main") \/ IsWant(i, "main")}
News == {i \in CallIdx : calls[i].op = "new"}

\* The manifest-phase run reported n >= 1 tasks / zero tasks / a failed run.
Regenerated ==
    \E i \in ManifestRuns : calls[i].out.kind = "Some" /\ calls[i].out.n >= 1
AlreadyCurrent ==
    \E i \in ManifestRuns : calls[i].out.kind = "Some" /\ calls[i].out.n = 0
ManifestRunFailed ==
    \E i \in ManifestRuns : calls[i].out.kind = "None"

\* The targets requested on Scheduler instance g, in call order.
RECURSIVE WantedFrom(_, _, _)
WantedFrom(i, g, phases) ==
    IF i > Len(calls) THEN <<>>
    ELSE IF calls[i].op = "want" /\ calls[i].gen = g /\ calls[i].phase \in phases
         THEN <<calls[i].target>> \o WantedFrom(i + 1, g, phases)
         ELSE WantedFrom(i + 1, g, phases)
RequestedOn(g) == WantedFrom(1, g, {"manifest", "main"})
MainRequestedOn(g) == WantedFrom(1, g, {"main"})

\* C1: when the manifest-phase run reports n >= 1 tasks, the Loader is
\* called a second time with the same path and never a third time; once the
\* second load has returned a state, a new Scheduler is made from exactly
\* that state; and every main-phase target request and the main-phase run
\* go to that second Scheduler, never to the one made from the first load.
C1_ReloadOnce ==
    Regenerated =>
        /\ Cardinality(Loads) <= 2
        /\ pc # "reload" => Cardinality(Loads) = 2
        /\ \A i \in Loads : calls[i].path = calls[1].path
        /\ \A i \in MainCalls : calls[i].gen = 2
        /\ pc \in {"select", "want_file", "want_default", "run_main"} \/ MainCalls # {} =>
              /\ Cardinality(News) = 2
              /\ \E i \in Loads : /\ i > 1
                                  /\ calls[i].ok
                                  /\ work = Work_new(calls[i].ret)
                                  /\ state = AfterMove(calls[i].ret)

C1_Witness ==
    /\ pc = "done"
    /\ Regenerated
    /\ result.kind = "Some"
    /\ \E i \in MainCalls : IsWant(i, "main")
    /\ \E i \in MainCalls : IsRun(i, "main") /\ calls[i].gen = 2

\* C2: when the manifest-phase run reports zero tasks, the Loader is called
\* exactly once, and target selection and the main run use what the first
\* load returned: the Scheduler holds its graph, fingerprint database and
\* pools, and `state` its default-target list.
C2_AlreadyCurrentKeepsState ==
    AlreadyCurrent =>
        /\ Cardinality(Loads) = 1
        /\ Cardinality(News) = 1
        /\ calls[1].op = "load" /\ calls[1].ok
        /\ work = Work_new(calls[1].ret)
        /\ state = AfterMove(calls[1].ret)
        /\ \A i \in MainCalls : calls[i].gen = 1

C2_Witness ==
    /\ pc = "done"
    /\ AlreadyCurrent
    /\ result.kind = "Some"
    /\ \E i \in MainCalls : IsWant(i, "main") /\ calls[i].target \in Range(calls[1].ret.default)

\* C3: at target selection with an empty explicit list and an empty default
\* list in the state then held, build() returns the "no path specified and
\* no default" error in that very step, without any further collaborator
\* call; build() makes no step after it has returned.
C3_NoTargetsIsError ==
    [][ /\ (pc = "select" /\ targets = <<>> /\ state.default = <<>>) =>
              /\ pc' = "done"
              /\ result' = Err("no path specified and no default")
              /\ calls' = calls
        /\ pc # "done" ]_vars

C3_Witness ==
    /\ pc = "done"
    /\ targets = <<>>
    /\ state.default = <<>>
    /\ Regenerated
    /\ result = Err("no path specified and no default")
    /\ MainRuns = {}

\* C4: a failed manifest-phase run (Ok(None)) makes build() return None at
\* once: that run is the last collaborator call, the Loader was called
\* once, no explicit or default target was requested and no other run was
\* started.
C4_ManifestFailureReturnsNone ==
    ManifestRunFailed =>
        /\ pc = "done"
        /\ result = OkNone
        /\ IsRun(Len(calls), "manifest")
        /\ Cardinality(Loads) = 1
        /\ MainCalls = {}
        /\ Cardinality(ManifestRuns) = 1

C4_Witness ==
    /\ ManifestRunFailed
    /\ result = OkNone
    /\ targets # <<>>

\* The final target set of step 3: the explicit targets when given, else
\* the declared defaults.
FinalTargets == IF targets # <<>> THEN targets ELSE state.default

FinalRunDone == pc = "done" /\ Len(calls) > 0 /\ IsRun(Len(calls), "main")

\* C5 as claimed: the targets requested on the Scheduler whose run gives
\* build()'s result are exactly the final target set, the manifest target
\* of the self-rebuild phase not among them.
C5_Original ==
    FinalRunDone => Range(RequestedOn(work.gen)) = Range(FinalTargets)

\* C5 as amended: the targets requested on that Scheduler after the
\* self-rebuild phase are exactly the final target list, in order; the only
\* other request it ever got is the manifest target, and only when the
\* manifest-phase run reported zero tasks (the same Scheduler is then kept).
C5_FinalTargetSet ==
    FinalRunDone =>
        /\ calls[Len(calls)].gen = work.gen
        /\ MainRequestedOn(work.gen) = FinalTargets
        /\ RequestedOn(work.gen) =
              IF AlreadyCurrent THEN <<build_filename>> \o FinalTargets
              ELSE FinalTargets

C5_Witness ==
    /\ FinalRunDone
    /\ AlreadyCurrent
    /\ targets = <<>>
    /\ Len(state.default) = 2
    /\ RequestedOn(work.gen) = <<build_filename>> \o state.default

\* ======================================================================
\* hash_build / explain_hash_build  (src/hash.rs)
\* ======================================================================
UNIT_SEPARATOR == 31

\* Text is a sequence of bytes: "a" is <<97>>.
\* The graph of the model: FileId -> file name ("a" and "aa").
FileIds == {1, 2}
GraphFiles == [id \in FileIds |-> IF id = 1 THEN <<97>> ELSE <<97, 97>>]

\* MTime::Stamp(SystemTime): seconds and nanoseconds since the Unix epoch.
\* The first has the separator's byte in its seconds, the second lies
\* before the epoch (its seconds are eight 0xff bytes).
Stamps == {[sec |-> 31, nsec |-> 97000000], [sec |-> -1, nsec |-> 0]}
NoStamp == [sec |-> 0, nsec |-> 0]

\* FileState::get(id): None (no entry), Some(MTime::Missing) or
\* Some(MTime::Stamp(t)).
Statuses ==
    {[kind |-> "absent", t |-> NoStamp], [kind |-> "missing", t |-> NoStamp]}
        \cup {[kind |-> "stamp", t |-> t] : t \in Stamps}

\* Option<String> cmdline and Option<RspFile> rspfile of a Build.
NoCmdline == [some |-> FALSE, text |-> <<>>]
Cmdlines == {NoCmdline, [some |-> TRUE, text |-> <<97>>]}
NoRspFile == [some |-> FALSE, path |-> "", content |-> <<>>]
RspFiles ==
    {NoRspFile} \cup {[some |-> TRUE, path |-> p, content |-> c] :
                        p \in {"p1", "p2"}, c \in {<<97>>}}
                \cup {[some |-> TRUE, path |-> "p1", content |-> <<97, 97>>]}

\* The three ordered file lists of a Build: dirtying_ins(), discovered_ins()
\* and outs(), with at most MaxRefs references in all.
FileLists ==
    {g \in SeqsUpTo(FileIds, MaxRefs) \X SeqsUpTo(FileIds, MaxRefs) \X SeqsUpTo(FileIds, MaxRefs) :
        Len(g[1]) + Len(g[2]) + Len(g[3]) <= MaxRefs}

Edge(g, c, r) ==
    [ins |-> g[1], discovered_ins |-> g[2], outs |-> g[3], cmdline |-> c, rspfile |-> r]
Edges == {Edge(g, c, r) : g \in FileLists, c \in Cmdlines, r \in RspFiles}

RECURSIVE Flatten(_)
Flatten(chunks) ==
    IF chunks = <<>> THEN <<>> ELSE Head(chunks) \o Flatten(Tail(chunks))

\* The little-endian bytes of n in w bytes, two's complement for n < 0.
RECURSIVE LEBytes(_, _)
LEBytes(n, w) ==
    IF w = 0 THEN <<>> ELSE <<n % 256>> \o LEBytes(n \div 256, w - 1)
IntBytes(n, w) ==
    IF n >= 0 THEN LEBytes(n, w)
    ELSE [i \in 1..w |-> 255 - LEBytes(-n - 1, w)[i]]

\* ---- get_fileid_status (lines 34-48): the name and the stamp of a file,
\* or a panic when the snapshot has no entry for it or has it Missing.
Panic(msg) == [ok |-> FALSE, msg |-> msg, name |-> <<>>, mtime |-> NoStamp]

\* Mutant: a file without a stamp is hashed with the epoch as its stamp.
get_fileid_status_Lenient(g, fs, id) ==
    [ok |-> TRUE, msg |-> "", name |-> g[id],
     mtime |-> IF fs[id].kind = "stamp" THEN fs[id].t ELSE NoStamp]

get_fileid_status(g, fs, id) ==
    IF fs[id].kind = "absent" THEN Panic("no state for")
    ELSE IF fs[id].kind = "missing" THEN Panic("missing file")
    ELSE [ok |-> TRUE, msg |-> "", name |-> g[id], mtime |-> fs[id].t]

\* ---- TerseHash (lines 50-94).  The hasher is the sequence of writes made
\* to the DefaultHasher, each a chunk of bytes; `panicked` is set when a
\* visitor call panicked, after which nothing more is written.
TerseHash_default == [panicked |-> FALSE, msg |-> "", writes |-> <<>>, text |-> <<>>]

Write(h, chunk) == [h EXCEPT !.writes = Append(@, chunk)]
Panicked(h, msg) == [h EXCEPT !.panicked = TRUE, !.msg = msg]

\* Hash::hash for str: the bytes, then 0xff.
str_hash(h, string) == Write(Write(h, string), <<255>>)

\* Mutant: only the seconds of a stamp are hashed.
SystemTime_hash_SecondsOnly(h, t) == Write(h, IntBytes(t.sec, 8))

\* Hash::hash for SystemTime: tv_sec as an i64, tv_nsec as a u32.
SystemTime_hash(h, t) == Write(Write(h, IntBytes(t.sec, 8)), IntBytes(t.nsec, 4))

\* lines 57-59
TerseHash_write_string(h, string) == str_hash(h, string)

\* lines 61-63
TerseHash_write_separator(h) == Write(h, <<UNIT_SEPARATOR>>)

\* lines 78-82: the loop over ids.
RECURSIVE TerseHash_write_ids(_, _, _, _)
TerseHash_write_ids(h, g, fs, ids) ==
    IF ids = <<>> THEN h
    ELSE LET st == get_fileid_status(g, fs, Head(ids))
         IN  IF ~st.ok THEN Panicked(h, st.msg)
             ELSE TerseHash_write_ids(
                      SystemTime_hash(TerseHash_write_string(h, st.name), st.mtime),
                      g, fs, Tail(ids))

\* Mutant: no separator after a group of files.
TerseHash_write_files_NoSeparator(h, desc, g, fs, ids) ==
    TerseHash_write_ids(h, g, fs, ids)

\* lines 71-84
TerseHash_write_files(h, desc, g, fs, ids) ==
    LET h1 == TerseHash_write_ids(h, g, fs, ids)
    IN  IF h1.panicked THEN h1 ELSE TerseHash_write_separator(h1)

\* lines 86-89
TerseHash_write_cmdline(h, cmdline) ==
    TerseHash_write_separator(TerseHash_write_string(h, cmdline))

PathBytes(path) == IF path = "p1" THEN <<112, 49>> ELSE <<112, 50>>

\* Mutant: the response file's path is hashed with its content.
RspFile_hash_WithPath(h, rspfile) ==
    str_hash(str_hash(h, PathBytes(rspfile.path)), rspfile.content)

\* Hash::hash for RspFile (crate::graph): the content is fed to the digest.
RspFile_hash(h, rspfile) == str_hash(h, rspfile.content)

\* Mutant: the response file is identified by its path alone.
TerseHash_write_rsp_PathOnly(h, rspfile) == str_hash(h, PathBytes(rspfile.path))

\* lines 91-93
TerseHash_write_rsp(h, rspfile) == RspFile_hash(h, rspfile)

\* lines 65-67: Hash(self.0.finish()).  The digest is taken as the byte
\* stream it was fed: the 64-bit SipHash value is a function of that stream.
TerseHash_finish(h) == Flatten(h.writes)

\* ---- ExplainHash (lines 121-157).  The text is kept as its lines.
ExplainHash_default == [panicked |-> FALSE, msg |-> "", writes |-> <<>>, text |-> <<>>]

Line(kind, desc, name, millis) ==
    [kind |-> kind, desc |-> desc, name |-> name, millis |-> millis]
WriteLine(h, line) == [h EXCEPT !.text = Append(@, line)]

\* lines 138-141: mtime.duration_since(UNIX_EPOCH).unwrap().as_millis()
BeforeEpoch(t) == t.sec < 0
as_millis(t) == t.sec * 1000 + t.nsec \div 1000000

\* lines 136-143: the loop over ids.
RECURSIVE ExplainHash_write_ids(_, _, _, _)
ExplainHash_write_ids(h, g, fs, ids) ==
    IF ids = <<>> THEN h
    ELSE LET st == get_fileid_status(g, fs, Head(ids))
         IN  IF ~st.ok THEN Panicked(h, st.msg)
             ELSE IF BeforeEpoch(st.mtime) THEN Panicked(h, "unwrap on Err")
             ELSE ExplainHash_write_ids(
                      WriteLine(h, Line("file", "", st.name, as_millis(st.mtime))),
                      g, fs, Tail(ids))

Reverse(s) == [i \in 1..Len(s) |-> s[Len(s) + 1 - i]]

\* Mutant: the files are listed last to first.
ExplainHash_write_files_Reversed(h, desc, g, fs, ids) ==
    ExplainHash_write_ids(WriteLine(h, Line("label", desc, <<>>, 0)), g, fs, Reverse(ids))

\* lines 128-144
ExplainHash_write_files(h, desc, g, fs, ids) ==
    ExplainHash_write_ids(WriteLine(h, Line("label", desc, <<>>, 0)), g, fs, ids)

\* lines 146-152: the path, then the digest of the content's bytes.
ExplainHash_write_rsp(h, rspfile) ==
    WriteLine(WriteLine(h, Line("rspfile path", rspfile.path, <<>>, 0)),
              Line("rspfile hash", "", rspfile.content, 0))

\* lines 154-156
ExplainHash_write_cmdline(h, cmdline) ==
    WriteLine(h, Line("cmdline", "", cmdline, 0))

\* ---- BuildHasher (lines 21-32): the calls of the trait, dispatched on
\* the implementation.
FilesCall(desc, ids) ==
    [op |-> "write_files", desc |-> desc, ids |-> ids, text |-> <<>>, rsp |-> NoRspFile]
CmdlineCall(text) ==
    [op |-> "write_cmdline", desc |-> "", ids |-> <<>>, text |-> text, rsp |-> NoRspFile]
RspCall(rspfile) ==
    [op |-> "write_rsp", desc |-> "", ids |-> <<>>, text |-> <<>>, rsp |-> rspfile]

Dispatch(kind, h, g, fs, c) ==
    IF c.op = "write_files"
    THEN IF kind = "terse" THEN TerseHash_write_files(h, c.desc, g, fs, c.ids)
         ELSE ExplainHash_write_files(h, c.desc, g, fs, c.ids)
    ELSE IF c.op = "write_cmdline"
    THEN IF kind = "terse" THEN TerseHash_write_cmdline(h, c.text)
         ELSE ExplainHash_write_cmdline(h, c.text)
    ELSE IF kind = "terse" THEN TerseHash_write_rsp(h, c.rsp)
         ELSE ExplainHash_write_rsp(h, c.rsp)

\* One call of the traversal on the run so far: the hasher and the calls
\* issued.  After a panic nothing further is called.
Visit(kind, run, g, fs, c) ==
    IF run.hasher.panicked THEN run
    ELSE [hasher |-> Dispatch(kind, run.hasher, g, fs, c),
          calls |-> Append(run.calls, c)]

\* build.cmdline.as_deref().unwrap_or("")
unwrap_or_empty(cmdline) == IF cmdline.some THEN cmdline.text ELSE <<>>

\* Mutant: the response file is visited before the command line.
hash_build_with_hasher_RspFirst(kind, hasher, g, fs, b) ==
    LET r0 == [hasher |-> hasher, calls |-> <<>>]
        r1 == Visit(kind, r0, g, fs, FilesCall("in", b.ins))
        r2 == Visit(kind, r1, g, fs, FilesCall("discovered", b.discovered_ins))
        r3 == IF b.rspfile.some THEN Visit(kind, r2, g, fs, RspCall(b.rspfile)) ELSE r2
        r4 == Visit(kind, r3, g, fs, CmdlineCall(unwrap_or_empty(b.cmdline)))
    IN  Visit(kind, r4, g, fs, FilesCall("out", b.outs))

\* lines 96-109
hash_build_with_hasher(kind, hasher, g, fs, b) ==
    LET r0 == [hasher |-> hasher, calls |-> <<>>]
        r1 == Visit(kind, r0, g, fs, FilesCall("in", b.ins))
        r2 == Visit(kind, r1, g, fs, FilesCall("discovered", b.discovered_ins))
        r3 == Visit(kind, r2, g, fs, CmdlineCall(unwrap_or_empty(b.cmdline)))
        r4 == IF b.rspfile.some THEN Visit(kind, r3, g, fs, RspCall(b.rspfile)) ELSE r3
    IN  Visit(kind, r4, g, fs, FilesCall("out", b.outs))

\* What a call returned: the value (the Fingerprint's byte stream or the
\* text) unless it panicked, with the run that produced it.
NotCalled == [status |-> "none", value |-> <<>>, hasher |-> TerseHash_default, calls |-> <<>>]
Returned(run, value) ==
    IF run.hasher.panicked
    THEN [status |-> "panic", value |-> <<>>, hasher |-> run.hasher, calls |-> run.calls]
    ELSE [status |-> "ok", value |-> value, hasher |-> run.hasher, calls |-> run.calls]

\* lines 115-119
hash_build(g, fs, b) ==
    LET run == hash_build_with_hasher("terse", TerseHash_default, g, fs, b)
    IN  Returned(run, TerseHash_finish(run.hasher))

\* lines 161-165
explain_hash_build(g, fs, b) ==
    LET run == hash_build_with_hasher("explain", ExplainHash_default, g, fs, b)
    IN  Returned(run, run.hasher.text)

\* The Scheduler calls hash_build on an edge.
HashBuild ==
    /\ hash_ret.status = "none"
    /\ hash_ret' = hash_build(graph, file_state, build)
    /\ UNCHANGED <<graph, build, file_state, explain_ret, buildvars, concvars, runvars>>

\* The Scheduler calls explain_hash_build on an edge (-d explain).
ExplainHashBuild ==
    /\ explain_ret.status = "none"
    /\ explain_ret' = explain_hash_build(graph, file_state, build)
    /\ UNCHANGED <<graph, build, file_state, hash_ret, buildvars, concvars, runvars>>

BuildIdle ==
    /\ pc = "idle"
    /\ targets = <<>>
    /\ state = NoState
    /\ work = NoWork
    /\ idx = 1
    /\ calls = <<>>
    /\ result = NoResult

HashInit ==
    /\ graph = GraphFiles
    /\ build \in Edges
    /\ file_state \in [FileIds -> Statuses]
    /\ hash_ret = NotCalled
    /\ explain_ret = NotCalled
    /\ BuildIdle
    /\ ConcIdle
    /\ RunIdle

HashNext == HashBuild \/ ExplainHashBuild

SpecHash == HashInit /\ [][HashNext]_vars
\* ---------------------------------------------------------------------
\* Properties of hash_build / explain_hash_build
\* ---------------------------------------------------------------------
Called(r) == r.status # "none"
Completed(r) == r.status = "ok"

\* The visitor calls the traversal is to issue for edge b, in order.
ExpectedCalls(b) ==
    <<FilesCall("in", b.ins),
      FilesCall("discovered", b.discovered_ins),
      CmdlineCall(IF b.cmdline.some THEN b.cmdline.text ELSE <<>>)>>
    \o (IF b.rspfile.some THEN <<RspCall(b.rspfile)>> ELSE <<>>)
    \o <<FilesCall("out", b.outs)>>

\* A run's calls are the expected ones: all of them when it completed, and
\* those up to the write_files call that panicked otherwise.
InOrder(r) ==
    Called(r) =>
        /\ IsPrefix(r.calls, ExpectedCalls(build))
        /\ Completed(r) => r.calls = ExpectedCalls(build)
        /\ ~Completed(r) => /\ r.calls # <<>>
                            /\ r.calls[Len(r.calls)].op = "write_files"

\* C6: for every edge, both hashers are sent files("in"), files("discovered"),
\* the command line ("" when the edge has none), the response file if and
\* only if the edge has one, and files("out"), in this order, empty lists
\* and an empty command included; a run that panics stops inside one of the
\* files calls; the Signature Engine and the Explain Recorder get the same
\* sequence of calls.
C6_TraversalOrder ==
    /\ InOrder(hash_ret)
    /\ InOrder(explain_ret)
    /\ Completed(hash_ret) /\ Completed(explain_ret) => hash_ret.calls = explain_ret.calls

C6_Witness ==
    /\ Completed(hash_ret)
    /\ Completed(explain_ret)
    /\ build.ins = <<>>
    /\ ~build.cmdline.some
    /\ build.rspfile.some
    /\ Len(hash_ret.calls) = 5
    /\ hash_ret.calls[3] = CmdlineCall(<<>>)

\* The names of an edge's files, one after the other without boundaries,
\* and their statuses.
RECURSIVE NamesOf(_, _)
NamesOf(g, ids) ==
    IF ids = <<>> THEN <<>> ELSE <<g[Head(ids)]>> \o NamesOf(g, Tail(ids))
AllIds(b) == b.ins \o b.discovered_ins \o b.outs
RawNames(g, b) == Flatten(NamesOf(g, AllIds(b)))
StatusSeq(fs, b) == [i \in 1..Len(AllIds(b)) |-> fs[AllIds(b)[i]]]

\* The edges with build's command line and response file whose file names
\* and stamps are the same in concatenation but grouped differently: the
\* ways to cut into three groups a list of as many files with the same
\* names in concatenation and the same statuses, one after the other.
Regroup(b, f, i, j) ==
    [b EXCEPT !.ins = SubSeq(f, 1, i), !.discovered_ins = SubSeq(f, i + 1, j),
              !.outs = SubSeq(f, j + 1, Len(f))]
Regroupings ==
    LET n == Len(AllIds(build))
        lists == {f \in [1..n -> FileIds] :
                    /\ Flatten(NamesOf(graph, f)) = RawNames(graph, build)
                    /\ [i \in 1..n |-> file_state[f[i]]] = StatusSeq(file_state, build)}
    IN  UNION {{Regroup(build, f, i, j) : j \in i..n} : f \in lists, i \in 0..n} \ {build}

\* C7: TerseHash writes the separator after each group of files and after
\* the command line, and an edge whose names and stamps are the same in
\* concatenation as the hashed edge's but are split differently between
\* the groups gets a different sequence of writes, a different byte stream
\* and so a different Fingerprint.
C7_GroupBoundaries ==
    Completed(hash_ret) =>
        /\ Len(SelectSeq(hash_ret.hasher.writes, LAMBDA c : c = <<UNIT_SEPARATOR>>)) = 4
        /\ \A e \in Regroupings :
              LET other == hash_build(graph, file_state, e)
              IN  /\ Completed(other)
                  /\ other.hasher.writes # hash_ret.hasher.writes
                  /\ other.value # hash_ret.value

\* inputs ["aa"], outputs ["a"]; the other edge is inputs ["a"], outputs ["aa"].
C7_Witness ==
    /\ Completed(hash_ret)
    /\ build.ins = <<2>>
    /\ build.discovered_ins = <<>>
    /\ build.outs = <<1>>
    /\ file_state[1] = file_state[2]
    /\ \E e \in Regroupings : e.ins = <<1>> /\ e.outs = <<2>>

Referenced(b) == Range(b.ins) \cup Range(b.discovered_ins) \cup Range(b.outs)
Unstatted == \E id \in Referenced(build) : file_state[id].kind \in {"absent", "missing"}

\* C8: when a file of any of the edge's three groups has no entry in the
\* snapshot or is Missing, hash_build panics and returns no Fingerprint, and
\* explain_hash_build panics and returns no text.
C8_MissingFileAborts ==
    Unstatted =>
        /\ Called(hash_ret) => hash_ret.status = "panic" /\ hash_ret.value = <<>>
        /\ Called(explain_ret) => explain_ret.status = "panic" /\ explain_ret.value = <<>>

C8_Witness ==
    /\ hash_ret.status = "panic"
    /\ explain_ret.status = "panic"
    /\ build.ins = <<1>>
    /\ build.outs = <<2>>
    /\ file_state[1].kind = "stamp"
    /\ file_state[2].kind = "missing"

\* The names the Explain Recorder lists under a label: the file lines that
\* follow the label's line.
RECURSIVE FileLinesFrom(_, _)
FileLinesFrom(text, i) ==
    IF i > Len(text) \/ text[i].kind # "file" THEN <<>>
    ELSE <<text[i].name>> \o FileLinesFrom(text, i + 1)
ExplainListed(text, label) ==
    LET at == CHOOSE i \in 1..Len(text) : text[i].kind = "label" /\ text[i].desc = label
    IN  FileLinesFrom(text, at + 1)

\* The names fed to the digest for a group that starts at write i: of each
\* file the name, its terminator and the two parts of the stamp are
\* written, and the separator ends the group.
RECURSIVE FedGroup(_, _)
FedGroup(w, i) ==
    IF w[i] = <<UNIT_SEPARATOR>> THEN [names |-> <<>>, next |-> i + 1]
    ELSE LET rest == FedGroup(w, i + 4)
         IN  [names |-> <<w[i]>> \o rest.names, next |-> rest.next]
TerseFed(w, b) ==
    LET in == FedGroup(w, 1)
        discovered == FedGroup(w, in.next)
        \* the command line and its terminator, the separator, and the
        \* response file's content and its terminator
        out == FedGroup(w, discovered.next + 3 + (IF b.rspfile.some THEN 2 ELSE 0))
    IN  [in |-> in.names, discovered |-> discovered.names, out |-> out.names]

\* C9: when both modes complete, the names the Explain Recorder lists under
\* "in", "discovered" and "out" are, in order and with duplicates, the names
\* fed to the digest for that group, which are the names of the edge's
\* file identifiers as given.
C9_ExplainMatchesHash ==
    Completed(hash_ret) /\ Completed(explain_ret) =>
        LET fed == TerseFed(hash_ret.hasher.writes, build)
            listed == [l \in {"in", "discovered", "out"} |-> ExplainListed(explain_ret.value, l)]
        IN  /\ listed["in"] = fed.in
            /\ listed["discovered"] = fed.discovered
            /\ listed["out"] = fed.out
            /\ fed.in = NamesOf(graph, build.ins)
            /\ fed.discovered = NamesOf(graph, build.discovered_ins)
            /\ fed.out = NamesOf(graph, build.outs)

C9_Witness ==
    /\ Completed(hash_ret)
    /\ Completed(explain_ret)
    /\ build.outs = <<2, 1>>
    /\ ExplainListed(explain_ret.value, "out") = <<<<97, 97>>, <<97>>>>

\* The edges that agree with build on the three file lists, the command
\* text and the response file's content.
SameHashedData ==
    {e \in {[build EXCEPT !.cmdline = c, !.rspfile = r] : c \in Cmdlines, r \in RspFiles} :
        /\ e # build
        /\ unwrap_or_empty(e.cmdline) = unwrap_or_empty(build.cmdline)
        /\ e.rspfile.some = build.rspfile.some
        /\ e.rspfile.content = build.rspfile.content}

OtherStamps ==
    Stamps \cup {[sec |-> 31, nsec |-> 97000001], [sec |-> 32, nsec |-> 97000000]}

\* The snapshot with the stamp of file id changed to t.
Restamped(fs, id, t) == [fs EXCEPT ![id] = [kind |-> "stamp", t |-> t]]

\* C11: changing the stamp of one file the edge refers to, in whichever
\* group, and nothing else, changes the writes made to the digest, the byte
\* stream and so the Fingerprint.
C11_StampSensitive ==
    Completed(hash_ret) =>
        \A id \in Referenced(build) : \A t \in OtherStamps \ {file_state[id].t} :
            LET other == hash_build(graph, Restamped(file_state, id, t), build)
            IN  /\ Completed(other)
                /\ other.hasher.writes # hash_ret.hasher.writes
                /\ other.value # hash_ret.value

\* file 2 is an output only; a nanosecond more on it is a change.
C11_Witness ==
    /\ Completed(hash_ret)
    /\ build.ins = <<1>>
    /\ build.outs = <<2>>
    /\ file_state[2].t = [sec |-> 31, nsec |-> 97000000]
    /\ [sec |-> 31, nsec |-> 97000001] \in OtherStamps

\* Contents a response file may have instead.
OtherContents == {<<>>, <<97>>, <<98>>, <<97, 97>>, <<97, 31>>}

\* C12: an edge with a response file and the same edge with another
\* content in that response file (same path) get different writes,
\* different byte streams and so different Fingerprints.
C12_RspContentSensitive ==
    Completed(hash_ret) /\ build.rspfile.some =>
        \A c \in OtherContents \ {build.rspfile.content} :
            LET other == hash_build(graph, file_state, [build EXCEPT !.rspfile.content = c])
            IN  /\ Completed(other)
                /\ other.hasher.writes # hash_ret.hasher.writes
                /\ other.value # hash_ret.value

C12_Witness ==
    /\ Completed(hash_ret)
    /\ build.rspfile.some
    /\ build.rspfile.content = <<97>>
    /\ build.outs # <<>>
    /\ <<97, 97>> \in OtherContents

\* C19: on the same edge and snapshot explain_hash_build aborts exactly when
\* hash_build aborts; the Explain Recorder has no failure of its own.
C19_SameAborts ==
    Called(hash_ret) /\ Called(explain_ret) =>
        (explain_ret.status = "panic" <=> hash_ret.status = "panic")

\* The Explain Recorder's own failure: every referenced file has a stamp, one
\* of them before the epoch.
C19_ExplainOnlyAbort ==
    /\ hash_ret.status = "ok"
    /\ explain_ret.status = "panic"
    /\ ~Unstatted
    /\ \E id \in Referenced(build) : BeforeEpoch(file_state[id].t)

\* ---------------------------------------------------------------------
\* Concurrent invocations of hash_build / explain_hash_build.  The
\* Scheduler may fingerprint several edges at once; all invocations borrow
\* the same graph and the same snapshot (shared references) and each owns
\* its accumulator (a local of hash_build, lines 116 and 162).  One step is
\* one call of the visitor.
\* ---------------------------------------------------------------------
Invocations == {1, 2}

\* The edges the invocations are about.
ConcEdges ==
    {Edge(<<<<1>>, <<>>, <<2>>>>, [some |-> TRUE, text |-> <<97>>], NoRspFile),
     Edge(<<<<>>, <<2>>, <<>>>>, NoCmdline, [some |-> TRUE, path |-> "p1", content |-> <<97>>]),
     Edge(<<<<>>, <<>>, <<>>>>, NoCmdline, NoRspFile)}

\* TerseHash::default() (line 116), ExplainHash::default() (line 162)
NewRun(kind) ==
    [hasher |-> IF kind = "terse" THEN TerseHash_default ELSE ExplainHash_default,
     calls |-> <<>>]

\* Mutant: one accumulator per mode, shared by the invocations of that mode.
SharedAccumulator(ivs, t) ==
    IF ivs[1].kind = ivs[t].kind /\ ivs[1].pos # "returned" THEN ivs[1].run ELSE ivs[t].run

\* `&mut hasher` (lines 117, 163): the accumulator the visitor calls of
\* invocation t act on is the local of that invocation.
Accumulator(ivs, t) == ivs[t].run

\* The visitor call made at a position of hash_build_with_hasher.
CallAt(pos, b) ==
    IF pos = "in" THEN FilesCall("in", b.ins)
    ELSE IF pos = "discovered" THEN FilesCall("discovered", b.discovered_ins)
    ELSE IF pos = "cmdline" THEN CmdlineCall(unwrap_or_empty(b.cmdline))
    ELSE IF pos = "rsp" THEN RspCall(b.rspfile)
    ELSE FilesCall("out", b.outs)

\* The position after pos (lines 102-108); the response file is visited
\* only when there is one.
PosAfter(pos, b) ==
    IF pos = "in" THEN "discovered"
    ELSE IF pos = "discovered" THEN "cmdline"
    ELSE IF pos = "cmdline" THEN (IF b.rspfile.some THEN "rsp" ELSE "out")
    ELSE IF pos = "rsp" THEN "out"
    ELSE "finish"

\* The call is entered: its accumulator is created (lines 116, 162).
invoke_begin(t) ==
    /\ invocations[t].pos = "start"
    /\ invocations' = [invocations EXCEPT ![t].pos = "in", ![t].run = NewRun(invocations[t].kind)]
    /\ UNCHANGED <<hashvars, buildvars, runvars>>

\* One visitor call (lines 102-108).  A panic unwinds the invocation.
invoke_visit(t) ==
    LET iv == invocations[t]
        run == Visit(iv.kind, Accumulator(invocations, t), graph, file_state,
                     CallAt(iv.pos, iv.build))
    IN  /\ iv.pos \in {"in", "discovered", "cmdline", "rsp", "out"}
        /\ invocations' =
              IF run.hasher.panicked
              THEN [invocations EXCEPT ![t].run = run, ![t].pos = "returned",
                                       ![t].ret = Returned(run, <<>>)]
              ELSE [invocations EXCEPT ![t].run = run, ![t].pos = PosAfter(iv.pos, iv.build)]
        /\ UNCHANGED <<hashvars, buildvars, runvars>>

\* hasher.finish() (line 118), hasher.text (line 164)
invoke_finish(t) ==
    LET iv == invocations[t]
        value == IF iv.kind = "terse" THEN TerseHash_finish(iv.run.hasher)
                 ELSE iv.run.hasher.text
    IN  /\ iv.pos = "finish"
        /\ invocations' = [invocations EXCEPT ![t].pos = "returned",
                                              ![t].ret = Returned(iv.run, value)]
        /\ UNCHANGED <<hashvars, buildvars, runvars>>

ConcInit ==
    /\ graph = GraphFiles
    /\ file_state \in [FileIds -> Statuses]
    /\ build = <<>>
    /\ hash_ret = NotCalled
    /\ explain_ret = NotCalled
    /\ invocations \in [Invocations ->
           {[kind |-> k, build |-> b, pos |-> "start", run |-> NewRun(k), ret |-> NotCalled] :
              k \in {"terse", "explain"}, b \in ConcEdges}]
    /\ BuildIdle
    /\ RunIdle

ConcNext == \E t \in Invocations : invoke_begin(t) \/ invoke_visit(t) \/ invoke_finish(t)

SpecConc == ConcInit /\ [][ConcNext]_vars

\* What invocation t returns when it runs alone on the graph and snapshot.
Alone(t) ==
    IF invocations[t].kind = "terse"
    THEN hash_build(graph, file_state, invocations[t].build)
    ELSE explain_hash_build(graph, file_state, invocations[t].build)

C13_Isolated ==
    \A t \in Invocations :
        /\ invocations[t].pos = "in" => invocations[t].run = NewRun(invocations[t].kind)
        /\ invocations[t].pos = "returned" => invocations[t].ret = Alone(t)
        /\ \A u \in Invocations :
              /\ invocations[u].pos = "returned" /\ invocations[t].pos = "returned"
              /\ invocations[u].kind = invocations[t].kind
              /\ invocations[u].build = invocations[t].build
              => invocations[u].ret = invocations[t].ret

C13_ArgumentsUntouched ==
    /\ graph' = graph
    /\ file_state' = file_state
    /\ \A t \in Invocations :
          /\ invocations'[t].build = invocations[t].build
          /\ invocations'[t].kind = invocations[t].kind

\* C13: however the visitor calls of concurrent invocations interleave,
\* each invocation starts from a fresh accumulator, no step changes the
\* graph, the snapshot or an edge, and what an invocation returns is what
\* the same call returns when run alone; invocations with identical
\* arguments return the same.
C13_IndependentInvocations == [](C13_Isolated) /\ [][C13_ArgumentsUntouched]_vars

\* two hash_build invocations on different edges: the first has returned
\* its Fingerprint while the second is in mid-traversal, its own
\* accumulator holding what it has written so far.
C13_Witness ==
    /\ invocations[1].kind = "terse" /\ invocations[2].kind = "terse"
    /\ invocations[1].build # invocations[2].build
    /\ invocations[1].ret.status = "ok" /\ invocations[1].ret.value # <<>>
    /\ invocations[2].pos = "out"
    /\ invocations[2].run.hasher.writes # <<>>

\* ---------------------------------------------------------------------
\* run() and run_impl() (src/run.rs lines 108-195).  build() is the
\* machine above, entered at line 170.
\* ---------------------------------------------------------------------
ExitOk(code) == [kind |-> "Ok", code |-> code, msg |-> ""]
ExitErr(msg) == [kind |-> "Err", code |-> 0, msg |-> msg]

\* `return` or `?` in run_impl(): control is back in run(), at line 193.
run_impl_return(r) ==
    /\ res' = r
    /\ run_pc' = "close"

\* lines 109-114: argh::from_env() parses the command line; on --help or
\* on a command line it cannot parse it ends the process itself.
run_impl_from_env ==
    /\ run_pc = "from_env"
    /\ \E parsed \in BOOLEAN :
          run_pc' = IF parsed THEN "options" ELSE "exited"
    /\ UNCHANGED <<trace, res, run_ret, buildvars, hashvars, concvars>>

\* lines 116-123: -j, or default_parallelism()?
run_impl_options ==
    /\ run_pc = "options"
    /\ \E parallelism \in {"given", "default", "unavailable"} :
          IF parallelism = "unavailable"
          THEN run_impl_return(ExitErr("available_parallelism"))
          ELSE run_pc' = "version" /\ UNCHANGED res
    /\ UNCHANGED <<trace, run_ret, buildvars, hashvars, concvars>>

\* lines 125-132
run_impl_version ==
    /\ run_pc = "version"
    /\ \E version \in BOOLEAN :
          IF version THEN run_impl_return(ExitOk(0))
          ELSE run_pc' = "debug" /\ UNCHANGED res
    /\ UNCHANGED <<trace, run_ret, buildvars, hashvars, concvars>>

\* lines 134-146
run_impl_debug ==
    /\ run_pc = "debug"
    /\ \E debug \in {"none", "explain", "list", "trace", "other"}, opened \in BOOLEAN :
          IF debug = "list" THEN run_impl_return(ExitOk(1)) /\ UNCHANGED trace
          ELSE IF debug = "other" THEN run_impl_return(ExitErr("unknown -d")) /\ UNCHANGED trace
          ELSE IF debug = "trace" /\ ~opened
          THEN run_impl_return(ExitErr("trace::open")) /\ UNCHANGED trace
          ELSE /\ run_pc' = "tool"
               /\ trace' = IF debug = "trace" THEN [trace EXCEPT !.open = TRUE] ELSE trace
               /\ UNCHANGED res
    /\ UNCHANGED <<run_ret, buildvars, hashvars, concvars>>

\* lines 148-162
run_impl_tool ==
    /\ run_pc = "tool"
    /\ \E tool \in {"none", "list", "other"}, fake_ninja_compat \in BOOLEAN :
          IF tool = "list" THEN run_impl_return(ExitOk(1))
          ELSE IF tool = "other"
          THEN run_impl_return(IF fake_ninja_compat THEN ExitOk(0) ELSE ExitErr("unknown -t"))
          ELSE run_pc' = "chdir" /\ UNCHANGED res
    /\ UNCHANGED <<trace, run_ret, buildvars, hashvars, concvars>>

\* lines 164-167
run_impl_chdir ==
    /\ run_pc = "chdir"
    /\ \E chdir \in {"none", "entered", "failed"} :
          IF chdir = "failed" THEN run_impl_return(ExitErr("chdir"))
          ELSE run_pc' = "build" /\ UNCHANGED res
    /\ UNCHANGED <<trace, run_ret, buildvars, hashvars, concvars>>

\* lines 169-175: build() is called.
run_impl_build ==
    /\ run_pc = "build"
    /\ pc = "idle"
    /\ pc' = "load"
    /\ run_pc' = "building"
    /\ UNCHANGED <<targets, state, work, idx, calls, result,
                   trace, res, run_ret, hashvars, concvars>>

\* lines 170-188: build() has returned.
run_impl_match ==
    /\ run_pc = "building"
    /\ pc = "done"
    /\ run_impl_return(IF result.kind = "Err" THEN ExitErr(result.msg)
                       ELSE IF result.kind = "None" THEN ExitOk(1)
                       ELSE ExitOk(0))
    /\ UNCHANGED <<trace, run_ret, buildvars, hashvars, concvars>>

\* Mutant: run_impl()?; the trace is closed only when run_impl succeeded.
run_close_OnSuccessOnly ==
    /\ run_pc = "close"
    /\ trace' = IF res.kind = "Err" THEN trace
                ELSE [open |-> FALSE, closes |-> trace.closes + 1]
    /\ run_ret' = res
    /\ run_pc' = "returned"
    /\ UNCHANGED <<res, buildvars, hashvars, concvars>>

\* lines 193-194: trace::close(); res
run_close ==
    /\ run_pc = "close"
    /\ trace' = [open |-> FALSE, closes |-> trace.closes + 1]
    /\ run_ret' = res
    /\ run_pc' = "returned"
    /\ UNCHANGED <<res, buildvars, hashvars, concvars>>

RunInit ==
    /\ run_pc = "from_env"
    /\ trace = NoTrace
    /\ res = NoExit
    /\ run_ret = NoExit
    /\ pc = "idle"
    /\ targets \in SeqsUpTo(TargetNames, MaxTargets)
    /\ state = NoState
    /\ work = NoWork
    /\ idx = 1
    /\ calls = <<>>
    /\ result = NoResult
    /\ HashIdle
    /\ ConcIdle

RunNext ==
    \/ run_impl_from_env
    \/ run_impl_options
    \/ run_impl_version
    \/ run_impl_debug
    \/ run_impl_tool
    \/ run_impl_chdir
    \/ run_impl_build
    \/ BuildNext
    \/ run_impl_match
    \/ run_close

SpecRun == RunInit /\ [][RunNext]_vars

\* C14: whenever run() has returned the trace was closed exactly once, and
\* not before: the close comes when run_impl() has returned (build(), if it
\* was called, is over) and run() returns run_impl()'s result after it.
C14_TraceClosedOnce ==
    /\ trace.closes = IF run_pc = "returned" THEN 1 ELSE 0
    /\ run_pc \in {"close", "returned"} => res.kind # "none" /\ pc \in {"idle", "done"}
    /\ run_pc = "returned" => run_ret = res /\ ~trace.open

\* run() has returned the error of a build() that failed in its main
\* phase; the trace was closed on the way out.
C14_Witness ==
    /\ run_pc = "returned"
    /\ run_ret.kind = "Err"
    /\ result.kind = "Err"
    /\ MainCalls # {}
    /\ trace.closes = 1

\* The calls of the manifest phase: the check, the request and the run.
ManifestCalls ==
    {i \in CallIdx : \/ calls[i].op = "is_build_target"
                     \/ IsWant(i, "manifest")
                     \/ IsRun(i, "manifest")}

\* The most collaborator calls one build() can make: two loads, two
\* Schedulers, the three manifest calls, the target requests and the main run.
MostCalls == 8 + (IF targets # <<>> THEN Len(targets) ELSE 2)

C15_Bounded ==
    /\ Cardinality(Loads) <= 2
    /\ Cardinality(News) <= 2
    /\ Cardinality(ManifestRuns) <= 1
    /\ Cardinality(MainRuns) <= 1
    /\ Len(calls) <= MostCalls
    /\ \A i \in ManifestCalls : calls[i].gen = 1 /\ \A j \in Loads : j < i => j = 1

\* C15: build() makes a bounded number of collaborator calls (the Loader at
\* most twice, run() at most twice and once per phase) and, every call
\* returning, comes to its return; the manifest is checked, requested and
\* run on the first Scheduler only, never after a reload.
C15_Terminates == [](C15_Bounded) /\ <>(pc = "done")

\* the reloaded graph still has the manifest as a build output, and build()
\* went on to its main run without looking at the manifest again.
C15_Witness ==
    /\ pc = "done"
    /\ Regenerated
    /\ work.gen = 2
    /\ work.graph.manifest_is_output
    /\ MainRuns # {}
    /\ Cardinality(Loads) = 2

\* The second Loader call, once made.
SecondLoads == {i \in Loads : i > 1}

\* C16: the state of the first load (the Scheduler holding its graph,
\* fingerprint database and pools) is gone before the Loader is called the
\* second time, and never are the objects of two loads held at once.
C16_Original ==
    /\ SecondLoads # {} => work.gen # 1
    /\ ~(work.gen = 1 /\ state.graph.gen = 2)

\* C16 (as the code has it): the first load's state is replaced, not
\* discarded beforehand.  The first Scheduler is still held, untouched,
\* when the second Loader call has been made, and stays until the Scheduler
\* of the second load is assigned (on a failed second load: until build()
\* returns); between the two, `state` holds the second load's state next to
\* it.  Once the second Scheduler is assigned only objects of the second
\* load are held.
C16_ReplacedAfterLoad ==
    Regenerated =>
        /\ Cardinality(News) = 1 => work = Work_new(calls[1].ret)
        /\ pc = "renew" => /\ SecondLoads # {}
                           /\ \A i \in SecondLoads : state = calls[i].ret
                           /\ state.graph.gen = 2 /\ work.gen = 1
        /\ Cardinality(News) = 2 =>
              /\ work.gen = 2
              /\ \A i \in SecondLoads : work = Work_new(calls[i].ret)
                                        /\ state = AfterMove(calls[i].ret)

\* the second load has returned; its state and the first Scheduler are
\* both held.
C16_Witness ==
    /\ pc = "renew"
    /\ SecondLoads # {}
    /\ work.gen = 1
    /\ state.graph.gen = 2
    /\ state.db = <<"db", 2>> /\ work.db = <<"db", 1>>

SecondLoadFailed == \E i \in SecondLoads : ~calls[i].ok
FirstLoadFailed == calls # <<>> /\ ~calls[1].ok

\* C17: when the second Loader call fails build() returns the load error,
\* the same error value as for a failed first load; the failed load is its
\* last collaborator call: no second Scheduler, no main-phase request or
\* run, and the result is an error, not Ok(None) or Ok(Some(n)).
C17_SecondLoadFailure ==
    /\ SecondLoadFailed =>
          /\ pc = "done"
          /\ result = Err("load")
          /\ calls[Len(calls)].op = "load" /\ ~calls[Len(calls)].ok
          /\ Cardinality(News) = 1
          /\ MainCalls = {}
    /\ FirstLoadFailed =>
          /\ pc = "done"
          /\ result = Err("load")
          /\ Len(calls) = 1

C17_Witness ==
    /\ SecondLoadFailed
    /\ pc = "done"
    /\ result.kind = "Err"
    /\ Cardinality(Loads) = 2

\* build() is past target selection.
InMainPhase == pc \in {"want_file", "want_default", "run_main"} \/ MainCalls # {}

\* The explicit targets that do not resolve on the Scheduler in use.
Unresolved == {i \in 1..Len(targets) : ~want_file_resolves(work, targets[i])}

\* C18: when a name of a non-empty explicit-target list does not resolve,
\* build() returns an error and the main run is never invoked; the names
\* before it are requested and nothing else is, whatever the declared
\* defaults.
C18_UnknownTargetIsError ==
    targets # <<>> /\ InMainPhase /\ Unresolved # {} =>
        /\ MainRuns = {}
        /\ pc \in {"want_file", "done"}
        /\ pc = "done" => result.kind = "Err"
        /\ IsPrefix(MainRequestedOn(work.gen), targets)
        /\ \A i \in Unresolved : Len(MainRequestedOn(work.gen)) <= i

\* the first name resolved, the second did not; defaults are declared.
C18_Witness ==
    /\ pc = "done"
    /\ Len(targets) = 2
    /\ Unresolved = {2}
    /\ state.default # <<>>
    /\ result = Err("unknown path requested")
    /\ MainRequestedOn(work.gen) = targets

====
